---- MODULE Spec2Model ----
(***************************************************************************)
(* A model of streamlit_app.py: the username extractor                     *)
(* (extract_tiktok_usernames), the lookup engine (query_database) and the  *)
(* batch handler of main().                                                *)
(*                                                                         *)
(* Text is modelled as a sequence of one-character strings, so that the    *)
(* regular expressions, str.strip, re.sub and slicing are computed         *)
(* character by character as Python computes them.                         *)
(***************************************************************************)
EXTENDS Integers, Sequences, FiniteSets, TLC

VARIABLES
    pc,                  \* position in the program
    tiktok_input,        \* main: the text area, as its sequence of raw lines
    input_list,          \* main: input_list / extract_tiktok_usernames: inputs
    k,                   \* extract_tiktok_usernames: lines consumed by the for loop
    valid_usernames,     \* extract_tiktok_usernames: valid_usernames
    invalid_inputs,      \* extract_tiktok_usernames: invalid_inputs
    df,                  \* the loaded DataFrame: [columns, rows]
    usernames,           \* query_database: the usernames argument
    merged_df,           \* query_database: merged_df
    i,                   \* query_database: rows of merged_df consumed by the loop
    results,             \* query_database: results
    not_found_count,     \* query_database: not_found_count
    usernames_not_found, \* query_database: usernames_not_found
    st_error,            \* the column names of the st.error message of query_database
    total_processed      \* main: the number written by "Total inputs processed"

vars == <<pc, tiktok_input, input_list, k, valid_usernames, invalid_inputs, df,
          usernames, merged_df, i, results, not_found_count,
          usernames_not_found, st_error, total_processed>>

extractVars == <<input_list, k, valid_usernames, invalid_inputs>>
queryVars == <<usernames, merged_df, i, results, not_found_count,
               usernames_not_found, st_error>>

----------------------------------------------------------------------------
(* Bounds of the model. *)

MaxLines == 2       \* lines in one input of the extractor
MaxTextLines == 3   \* lines of the text area of main
MaxLineLen == 2     \* length of a generated line
MaxIds == 2         \* identifiers handed to query_database
MaxRows == 2        \* rows of the dataset
MaxPhoneLen == 10   \* length of a generated all-digit phone value
MaxPunctLen == 3    \* length of a generated phone value with punctuation

----------------------------------------------------------------------------
(* Characters and strings. *)

Digits == {"0", "1", "2", "3", "4", "5", "6", "7", "8", "9"}

Letters ==
    {"a", "b", "c", "d", "e", "f", "g", "h", "i", "j", "k", "l", "m",
     "n", "o", "p", "q", "r", "s", "t", "u", "v", "w", "x", "y", "z",
     "A", "B", "C", "D", "E", "F", "G", "H", "I", "J", "K", "L", "M",
     "N", "O", "P", "Q", "R", "S", "T", "U", "V", "W", "X", "Y", "Z"}

\* str.strip() with no argument removes whitespace.
Whitespace == {" ", "\t"}

\* The character class [A-Za-z0-9_.] of both regular expressions.
IsWordChar(c) == c \in Letters \cup Digits \cup {"_", "."}

HasPrefix(s, p) == Len(s) >= Len(p) /\ SubSeq(s, 1, Len(p)) = p

Drop(s, n) == SubSeq(s, n + 1, Len(s))

RECURSIVE LStrip(_)
LStrip(s) ==
    IF s # <<>> /\ Head(s) \in Whitespace THEN LStrip(Tail(s)) ELSE s

RECURSIVE RStrip(_)
RStrip(s) ==
    IF s # <<>> /\ s[Len(s)] \in Whitespace
    THEN RStrip(SubSeq(s, 1, Len(s) - 1))
    ELSE s

\* line.strip()
Strip(s) == RStrip(LStrip(s))

SeqsUpTo(S, n) == UNION {[1..m -> S] : m \in 0..n}

----------------------------------------------------------------------------
(* extract_tiktok_usernames: the two grammars. *)

SchemeHttp == <<"h", "t", "t", "p">>
SchemeSep == <<":", "/", "/">>
Www == <<"w", "w", "w", ".">>
Host == <<"t", "i", "k", "t", "o", "k", ".", "c", "o", "m", "/", "@">>

\* The length of the longest run of [A-Za-z0-9_.] at the start of s (the
\* greedy + of the capture group).
RECURSIVE RunLen(_)
RunLen(s) ==
    IF s # <<>> /\ IsWordChar(Head(s)) THEN 1 + RunLen(Tail(s)) ELSE 0

\* tiktok\.com/@([A-Za-z0-9_.]+) at the start of s: <<group 1>>, or <<>> when
\* it does not match.  What follows the run is not looked at.
MatchHost(s) ==
    IF HasPrefix(s, Host) /\ RunLen(Drop(s, Len(Host))) >= 1
    THEN <<SubSeq(s, Len(Host) + 1, Len(Host) + RunLen(Drop(s, Len(Host))))>>
    ELSE <<>>

\* (?:www\.)? then the rest: the group is tried first, then skipped.
MatchWww(s) ==
    LET taken == IF HasPrefix(s, Www) THEN MatchHost(Drop(s, Len(Www))) ELSE <<>>
    IN  IF taken # <<>> THEN taken ELSE MatchHost(s)

\* :// then the rest.
MatchSep(s) ==
    IF HasPrefix(s, SchemeSep) THEN MatchWww(Drop(s, Len(SchemeSep))) ELSE <<>>

\* (?:https?://)? then the rest: http, an optional s, ://; the group is tried
\* first, then skipped.
MatchScheme(s) ==
    LET afterHttp == Drop(s, Len(SchemeHttp))
        withS == IF HasPrefix(afterHttp, <<"s">>)
                 THEN MatchSep(Tail(afterHttp)) ELSE <<>>
        taken == IF ~HasPrefix(s, SchemeHttp) THEN <<>>
                 ELSE IF withS # <<>> THEN withS ELSE MatchSep(afterHttp)
    IN  IF taken # <<>> THEN taken ELSE MatchWww(s)

\* pattern.match(line): anchored at the start of the line only.
PatternMatch(line) == MatchScheme(line)

\* A faulty variant of the bare grammar: the end anchor $ is left out, so a
\* line need only begin with an allowed character.
BareMatch_Unanchored(line) == Len(line) >= 1 /\ IsWordChar(line[1])

\* re.match(r"^[A-Za-z0-9_.]+$", line)
BareMatch(line) ==
    Len(line) >= 1 /\ \A j \in 1..Len(line) : IsWordChar(line[j])

----------------------------------------------------------------------------
(* Cell values of a DataFrame.  k is the Python type of the cell, s its     *)
(* text (k = "str") and n its number: the integer (k = "int"), the number   *)
(* of halves of a finite float (k = "float": 84 is 42.0, 85 is 42.5, -5 is  *)
(* -2.5), the sign of an infinity (k = "inf") or 0/1 (k = "bool").  NaN is  *)
(* a float that pandas counts as null.                                      *)

StrVal(s) == [k |-> "str", s |-> s, n |-> 0]
IntVal(n) == [k |-> "int", s |-> <<>>, n |-> n]
FloatVal(h) == [k |-> "float", s |-> <<>>, n |-> h]
InfVal(sign) == [k |-> "inf", s |-> <<>>, n |-> sign]
BoolVal(b) == [k |-> "bool", s |-> <<>>, n |-> b]
NaN == [k |-> "nan", s |-> <<>>, n |-> 0]

NotFoundText == <<"N", "o", "t", " ", "f", "o", "u", "n", "d">>

\* The sentinel "Not found".
NotFound == StrVal(NotFoundText)

\* str(row["phone"]): load_csv_data reads the phone column with dtype str, so
\* a phone cell is a string or NaN, and str(NaN) is "nan".
PyStr(v) == IF v.k = "str" THEN v.s ELSE <<"n", "a", "n">>

PhoneLen == 10

\* re.sub(r'\D', '', phone_number)
StripNonDigits(s) == SelectSeq(s, LAMBDA c : c \in Digits)

\* A faulty variant of the slice: phone_number[:-n], all but the last n.
LastChars_DropTail(s, n) == SubSeq(s, 1, Len(s) - n)

\* phone_number[-n:]
LastChars(s, n) == IF Len(s) <= n THEN s ELSE SubSeq(s, Len(s) - n + 1, Len(s))

\* str.zfill(w): zeros on the left, after a leading sign.
RECURSIVE ZFill(_, _)
ZFill(s, w) ==
    IF Len(s) >= w THEN s
    ELSE IF s # <<>> /\ Head(s) \in {"+", "-"}
         THEN ZFill(<<Head(s), "0">> \o Tail(s), w)
         ELSE ZFill(<<"0">> \o s, w)

\* Lines 75-81: the phone written for a matched row.
NormalizePhone(raw) ==
    LET digits == StripNonDigits(PyStr(raw))
        zero == IF HasPrefix(digits, <<"0">>) THEN digits ELSE <<"0">> \o digits
    IN  ZFill(LastChars(zero, PhoneLen), PhoneLen)

\* pd.notnull(unit_sold)
NotNull(v) == v.k # "nan"

\* isinstance(unit_sold, (int, float)): bool is a subclass of int.
IsIntOrFloat(v) == v.k \in {"int", "float", "nan", "inf", "bool"}

\* int(unit_sold) raises OverflowError on an infinity.
IntRaises(v) == v.k = "inf"

\* int(unit_sold): a float is truncated towards zero.
PyInt(v) ==
    IF v.k = "float"
    THEN IF v.n >= 0 THEN v.n \div 2 ELSE -((-v.n) \div 2)
    ELSE v.n

\* Lines 84-88: whether the conversion is attempted, and what it gives.
UnitIsNumeric(v) == NotNull(v) /\ IsIntOrFloat(v)

NormalizeUnit(v) == IF UnitIsNumeric(v) THEN IntVal(PyInt(v)) ELSE NotFound

----------------------------------------------------------------------------
(* The DataFrame and the left merge. *)

required_columns ==
    <<"username", "unit_sold_last_30_days", "% category", "brand", "phone", "email">>

RequiredSet == {required_columns[j] : j \in 1..Len(required_columns)}

\* A faulty variant of the column check: it stops at the first missing column.
missing_columns_first(d) ==
    LET all == SelectSeq(required_columns, LAMBDA c : c \notin d.columns)
    IN  IF all = <<>> THEN <<>> ELSE <<Head(all)>>

\* [col for col in required_columns if col not in df.columns]
missing_columns(d) == SelectSeq(required_columns, LAMBDA c : c \notin d.columns)

\* The rows of d whose username is u, in the order of d.
Matches(u, d) == SelectSeq(d.rows, LAMBDA r : r["username"] = StrVal(u))

\* A row of the left side with no row of d: the columns of d are NaN.
LeftOnly(u, d) ==
    [cells |-> [c \in d.columns |-> IF c = "username" THEN StrVal(u) ELSE NaN],
     merge |-> "left_only"]

\* usernames_df.merge(df, on='username', how='left', indicator=True): the
\* identifiers in their order, each with every row of d that carries it.
RECURSIVE Merge(_, _)
Merge(us, d) ==
    IF us = <<>> THEN <<>>
    ELSE LET m == Matches(Head(us), d)
             here == IF m = <<>> THEN <<LeftOnly(Head(us), d)>>
                     ELSE [j \in 1..Len(m) |-> [cells |-> m[j], merge |-> "both"]]
         IN  here \o Merge(Tail(us), d)

\* One dictionary of results.
ResultRow(rec, user, unit, cat, brand, phone, email) ==
    ("Record #" :> IntVal(rec)) @@ ("username" :> user)
    @@ ("unit_sold_last_30_days" :> unit) @@ ("% category" :> cat)
    @@ ("brand" :> brand) @@ ("phone" :> phone) @@ ("email" :> email)

\* Lines 90-98.
FoundRow(pos, row) ==
    ResultRow(pos + 1, row.cells["username"],
              NormalizeUnit(row.cells["unit_sold_last_30_days"]),
              row.cells["% category"], row.cells["brand"],
              StrVal(NormalizePhone(row.cells["phone"])), row.cells["email"])

\* Lines 102-110.
NotFoundRow(pos, row) ==
    ResultRow(pos + 1, row.cells["username"],
              NotFound, NotFound, NotFound, NotFound, NotFound)

----------------------------------------------------------------------------
(* main: tiktok_input.strip().splitlines() on the text area's lines. *)

RECURSIVE DropBlankHead(_)
DropBlankHead(t) ==
    IF t # <<>> /\ Strip(Head(t)) = <<>> THEN DropBlankHead(Tail(t)) ELSE t

RECURSIVE DropBlankTail(_)
DropBlankTail(t) ==
    IF t # <<>> /\ Strip(t[Len(t)]) = <<>>
    THEN DropBlankTail(SubSeq(t, 1, Len(t) - 1))
    ELSE t

\* Whitespace, line breaks included, goes from both ends of the text; the
\* lines in between are kept as they are.
StripSplitlines(t) ==
    LET b == DropBlankTail(DropBlankHead(t))
    IN  IF Len(b) <= 1 THEN [j \in 1..Len(b) |-> Strip(b[j])]
        ELSE <<LStrip(b[1])>> \o SubSeq(b, 2, Len(b) - 1) \o <<RStrip(b[Len(b)])>>

----------------------------------------------------------------------------
(* The inputs the specifications draw from. *)

JaneDoe == <<"j", "a", "n", "e", "_", "d", "o", "e", "9", "9">>
HostName == <<"t", "i", "k", "t", "o", "k", ".", "c", "o", "m">>
Https == SchemeHttp \o <<"s">> \o SchemeSep
Http == SchemeHttp \o SchemeSep

\* The lines that are only the platform host, with or without scheme and www.
HostOnly == {sch \o w \o HostName : sch \in {<<>>, Http, Https}, w \in {<<>>, Www}}

LineAlphabet == {"a", " ", "!"}

Lines ==
    SeqsUpTo(LineAlphabet, MaxLineLen) \cup HostOnly \cup
    { Https \o Www \o Host \o JaneDoe,
      JaneDoe,
      <<"n", "o", "t", " ", "a", " ", "v", "a", "l", "i", "d", " ", "l", "i", "n", "e", "!", "!">>,
      Host \o <<"a">> \o <<"/", "v", "i", "d", "e", "o", "?", "x">>,
      <<" ", "\t">> \o Www \o Host \o <<"A", ".", "b">> \o <<" ">>,
      Host,
      <<"x", " ">> \o Host \o <<"a">> }

UserA == <<"a">>
UserB == <<"b">>

Ids == {UserA, UserB, JaneDoe}

\* A dataset row with the given username, unit_sold_last_30_days and phone.
Row(user, unit, phone) ==
    ("username" :> StrVal(user)) @@ ("unit_sold_last_30_days" :> unit)
    @@ ("% category" :> StrVal(<<"7", "%">>)) @@ ("brand" :> StrVal(<<"x">>))
    @@ ("phone" :> phone) @@ ("email" :> NaN) @@ ("notes" :> StrVal(<<>>))

Restrict(f, S) == [c \in S |-> f[c]]

Phone27 == <<"+", "2", "7", "-", "7", "1", "-", "2", "3", "4", "-", "5", "6", "7", "8">>
Phone07 == <<"0", "7", "1", "2", "3", "4", "5", "6", "7", "8">>

RowTemplates ==
    { Row(UserA, IntVal(42), StrVal(Phone27)),
      Row(UserA, FloatVal(85), StrVal(Phone07)),
      Row(UserB, NaN, NaN),
      Row(UserB, StrVal(<<"n", "/", "a">>), StrVal(<<"0", "7", "1", " ", "2", "3", "4", " ", "5", "6", "7", "8">>)),
      Row(JaneDoe, FloatVal(24), StrVal(Phone27)),
      Row(JaneDoe, InfVal(1), StrVal(<<"5">>)) }

ColumnSets ==
    { RequiredSet, RequiredSet \cup {"notes"}, RequiredSet \ {"brand"},
      RequiredSet \ {"phone", "email"} }

DataFrame(cols, rows) ==
    [columns |-> cols, rows |-> [j \in 1..Len(rows) |-> Restrict(rows[j], cols)]]

Datasets ==
    {DataFrame(cols, rows) : cols \in ColumnSets, rows \in SeqsUpTo(RowTemplates, MaxRows)}

Units ==
    { IntVal(42), IntVal(0), IntVal(-3), FloatVal(84), FloatVal(85), FloatVal(-5),
      NaN, InfVal(1), InfVal(-1), BoolVal(1), StrVal(<<"4", "2">>),
      StrVal(<<"n", "/", "a">>) }

Phones ==
    SeqsUpTo({"0", "7"}, MaxPhoneLen) \cup SeqsUpTo({"0", "7", "-", " "}, MaxPunctLen)
    \cup {Phone27, Phone07, <<"(", "0", "7", "1", ")", " ", "2", "3", "4", "-", "5", "6", "7", "8">>, <<"n", "a", "n">>}

\* One-row datasets: every unit value with one phone, every phone with one unit.
RowDatasets ==
    {DataFrame(cols, <<Row(UserA, u, StrVal(Phone07))>>) :
        cols \in {RequiredSet, RequiredSet \ {"brand"}}, u \in Units}
    \cup {DataFrame(RequiredSet, <<Row(UserA, IntVal(42), p)>>) :
            p \in {StrVal(ph) : ph \in Phones} \cup {NaN}}

\* A DataFrame with no column and no row: what load_csv_data returns on error.
EmptyFrame == [columns |-> {}, rows |-> <<>>]

MainLines ==
    { <<>>, <<" ">>, UserA, <<" ">> \o UserB \o <<" ">>, <<"x", "!">>,
      Https \o Www \o Host \o JaneDoe }

MainDatasets ==
    { EmptyFrame,
      DataFrame(RequiredSet, <<Row(UserA, IntVal(42), StrVal(Phone27))>>),
      DataFrame(RequiredSet, <<Row(JaneDoe, FloatVal(24), StrVal(Phone27)),
                               Row(UserB, InfVal(1), NaN)>>),
      DataFrame(RequiredSet \ {"brand"}, <<Row(UserA, IntVal(42), StrVal(Phone27))>>) }

----------------------------------------------------------------------------
(* extract_tiktok_usernames: one action per iteration of the for loop. *)

line == Strip(input_list[k + 1])

InLoop == pc = "extract" /\ k < Len(input_list)

\* if not line: continue
ExtractSkip ==
    /\ InLoop
    /\ line = <<>>
    /\ k' = k + 1
    /\ UNCHANGED <<pc, tiktok_input, input_list, valid_usernames, invalid_inputs,
                   df, queryVars, total_processed>>

\* if match: valid_usernames.append(match.group(1))
ExtractUrl ==
    /\ InLoop
    /\ line # <<>>
    /\ PatternMatch(line) # <<>>
    /\ valid_usernames' = Append(valid_usernames, PatternMatch(line)[1])
    /\ k' = k + 1
    /\ UNCHANGED <<pc, tiktok_input, input_list, invalid_inputs, df, queryVars,
                   total_processed>>

\* elif re.match(...): valid_usernames.append(line)
ExtractBare ==
    /\ InLoop
    /\ line # <<>>
    /\ PatternMatch(line) = <<>>
    /\ BareMatch(line)
    /\ valid_usernames' = Append(valid_usernames, line)
    /\ k' = k + 1
    /\ UNCHANGED <<pc, tiktok_input, input_list, invalid_inputs, df, queryVars,
                   total_processed>>

\* A faulty variant of the else branch: the line is dropped, not recorded.
ExtractInvalid_Dropped ==
    /\ InLoop
    /\ line # <<>>
    /\ PatternMatch(line) = <<>>
    /\ ~BareMatch(line)
    /\ k' = k + 1
    /\ UNCHANGED <<pc, tiktok_input, input_list, valid_usernames, invalid_inputs,
                   df, queryVars, total_processed>>

\* else: invalid_inputs.append(line)
ExtractInvalid ==
    /\ InLoop
    /\ line # <<>>
    /\ PatternMatch(line) = <<>>
    /\ ~BareMatch(line)
    /\ invalid_inputs' = Append(invalid_inputs, line)
    /\ k' = k + 1
    /\ UNCHANGED <<pc, tiktok_input, input_list, valid_usernames, df, queryVars,
                   total_processed>>

\* return valid_usernames, invalid_inputs
ExtractReturn ==
    /\ pc = "extract"
    /\ k = Len(input_list)
    /\ pc' = "extracted"
    /\ UNCHANGED <<tiktok_input, extractVars, df, queryVars, total_processed>>

NextExtract ==
    \/ ExtractSkip
    \/ ExtractUrl
    \/ ExtractBare
    \/ ExtractInvalid
    \/ ExtractReturn

----------------------------------------------------------------------------
(* query_database. *)

row == merged_df[i + 1]

InRows == pc = "rows" /\ i < Len(merged_df)

\* if missing_columns: ... return results, len(usernames), []
QueryMissingColumns ==
    /\ pc = "query"
    /\ missing_columns(df) # <<>>
    /\ st_error' = missing_columns(df)
    /\ results' = <<>>
    /\ not_found_count' = Len(usernames)
    /\ usernames_not_found' = <<>>
    /\ pc' = "returned"
    /\ UNCHANGED <<tiktok_input, extractVars, df, usernames, merged_df, i,
                   total_processed>>

\* merged_df = usernames_df.merge(df, ...)
QueryMerge ==
    /\ pc = "query"
    /\ missing_columns(df) = <<>>
    /\ merged_df' = Merge(usernames, df)
    /\ i' = 0
    /\ results' = <<>>
    /\ not_found_count' = 0
    /\ usernames_not_found' = <<>>
    /\ pc' = "rows"
    /\ UNCHANGED <<tiktok_input, extractVars, df, usernames, st_error,
                   total_processed>>

\* if row['_merge'] == 'both': ... results.append({...})
QueryRowFound ==
    /\ InRows
    /\ row.merge = "both"
    /\ ~(UnitIsNumeric(row.cells["unit_sold_last_30_days"])
         /\ IntRaises(row.cells["unit_sold_last_30_days"]))
    /\ results' = Append(results, FoundRow(i, row))
    /\ i' = i + 1
    /\ UNCHANGED <<pc, tiktok_input, extractVars, df, usernames, merged_df,
                   not_found_count, usernames_not_found, st_error, total_processed>>

\* if row['_merge'] == 'both': ... int(unit_sold) raises, and nothing in
\* query_database or main catches it.
QueryRowRaises ==
    /\ InRows
    /\ row.merge = "both"
    /\ UnitIsNumeric(row.cells["unit_sold_last_30_days"])
    /\ IntRaises(row.cells["unit_sold_last_30_days"])
    /\ pc' = "raised"
    /\ UNCHANGED <<tiktok_input, extractVars, df, queryVars, total_processed>>

\* A faulty variant of the miss branch: the counter is not incremented.
QueryRowNotFound_NoCount ==
    /\ InRows
    /\ row.merge # "both"
    /\ usernames_not_found' = Append(usernames_not_found, row.cells["username"].s)
    /\ results' = Append(results, NotFoundRow(i, row))
    /\ i' = i + 1
    /\ UNCHANGED <<pc, tiktok_input, extractVars, df, usernames, merged_df,
                   not_found_count, st_error, total_processed>>

\* else: not_found_count += 1; ...
QueryRowNotFound ==
    /\ InRows
    /\ row.merge # "both"
    /\ not_found_count' = not_found_count + 1
    /\ usernames_not_found' = Append(usernames_not_found, row.cells["username"].s)
    /\ results' = Append(results, NotFoundRow(i, row))
    /\ i' = i + 1
    /\ UNCHANGED <<pc, tiktok_input, extractVars, df, usernames, merged_df,
                   st_error, total_processed>>

\* return results, not_found_count, usernames_not_found
QueryReturn ==
    /\ pc = "rows"
    /\ i = Len(merged_df)
    /\ pc' = "returned"
    /\ UNCHANGED <<tiktok_input, extractVars, df, queryVars, total_processed>>

NextQuery ==
    \/ QueryMissingColumns
    \/ QueryMerge
    \/ QueryRowFound
    \/ QueryRowRaises
    \/ QueryRowNotFound
    \/ QueryReturn

----------------------------------------------------------------------------
(* main: the handler of the "Process and Query Data" button. *)

\* if not df.empty: ... else: st.error(...); return
MainLoadFailed ==
    /\ pc = "load"
    /\ (df.rows = <<>> \/ df.columns = {})
    /\ pc' = "done"
    /\ UNCHANGED <<tiktok_input, extractVars, df, queryVars, total_processed>>

MainLoaded ==
    /\ pc = "load"
    /\ ~(df.rows = <<>> \/ df.columns = {})
    /\ pc' = "main"
    /\ UNCHANGED <<tiktok_input, extractVars, df, queryVars, total_processed>>

\* if not tiktok_input.strip(): st.warning(...)
MainNoInput ==
    /\ pc = "main"
    /\ StripSplitlines(tiktok_input) = <<>>
    /\ pc' = "done"
    /\ UNCHANGED <<tiktok_input, extractVars, df, queryVars, total_processed>>

\* input_list = tiktok_input.strip().splitlines(); extract_tiktok_usernames(input_list)
MainExtract ==
    /\ pc = "main"
    /\ StripSplitlines(tiktok_input) # <<>>
    /\ input_list' = StripSplitlines(tiktok_input)
    /\ k' = 0
    /\ valid_usernames' = <<>>
    /\ invalid_inputs' = <<>>
    /\ pc' = "extract"
    /\ UNCHANGED <<tiktok_input, df, queryVars, total_processed>>

\* if valid_usernames: ... query_database(valid_usernames, df)
MainQuery ==
    /\ pc = "extracted"
    /\ valid_usernames # <<>>
    /\ usernames' = valid_usernames
    /\ pc' = "query"
    /\ UNCHANGED <<tiktok_input, extractVars, df, merged_df, i, results,
                   not_found_count, usernames_not_found, st_error, total_processed>>

\* else: st.error("No valid TikTok usernames found in the input.")
MainNoValid ==
    /\ pc = "extracted"
    /\ valid_usernames = <<>>
    /\ pc' = "done"
    /\ UNCHANGED <<tiktok_input, extractVars, df, queryVars, total_processed>>

\* st.write(f"Total inputs processed: {len(input_list)}")
MainSummary ==
    /\ pc = "returned"
    /\ total_processed' = Len(input_list)
    /\ pc' = "done"
    /\ UNCHANGED <<tiktok_input, extractVars, df, queryVars>>

Next ==
    \/ MainLoadFailed
    \/ MainLoaded
    \/ MainNoInput
    \/ MainExtract
    \/ NextExtract
    \/ MainQuery
    \/ MainNoValid
    \/ NextQuery
    \/ MainSummary

----------------------------------------------------------------------------
(* Initial states and specifications. *)

Idle ==
    /\ tiktok_input = <<>>
    /\ total_processed = -1

NoExtract ==
    /\ input_list = <<>>
    /\ k = 0
    /\ valid_usernames = <<>>
    /\ invalid_inputs = <<>>

NoQuery ==
    /\ usernames = <<>>
    /\ merged_df = <<>>
    /\ i = 0
    /\ results = <<>>
    /\ not_found_count = 0
    /\ usernames_not_found = <<>>
    /\ st_error = <<>>

\* main() with the CSV loaded and the text area filled in.
Init ==
    /\ pc = "load"
    /\ tiktok_input \in SeqsUpTo(MainLines, MaxTextLines)
    /\ df \in MainDatasets
    /\ total_processed = -1
    /\ NoExtract
    /\ NoQuery

Spec == Init /\ [][Next]_vars

\* extract_tiktok_usernames(inputs) called on a list of lines.
InitExtract ==
    /\ pc = "extract"
    /\ input_list \in SeqsUpTo(Lines, MaxLines)
    /\ k = 0
    /\ valid_usernames = <<>>
    /\ invalid_inputs = <<>>
    /\ df = EmptyFrame
    /\ Idle
    /\ NoQuery

SpecExtract == InitExtract /\ [][NextExtract]_vars

\* query_database(usernames, df) called on identifiers and a dataset.
InitQuery ==
    /\ pc = "query"
    /\ usernames \in SeqsUpTo(Ids, MaxIds)
    /\ df \in Datasets
    /\ merged_df = <<>>
    /\ i = 0
    /\ results = <<>>
    /\ not_found_count = 0
    /\ usernames_not_found = <<>>
    /\ st_error = <<>>
    /\ Idle
    /\ NoExtract

SpecQuery == InitQuery /\ [][NextQuery]_vars

\* query_database(usernames, df) called on a dataset of one row.
InitRow ==
    /\ pc = "query"
    /\ usernames \in {<<UserA>>, <<UserB>>}
    /\ df \in RowDatasets
    /\ merged_df = <<>>
    /\ i = 0
    /\ results = <<>>
    /\ not_found_count = 0
    /\ usernames_not_found = <<>>
    /\ st_error = <<>>
    /\ Idle
    /\ NoExtract

SpecRow == InitRow /\ [][NextQuery]_vars

----------------------------------------------------------------------------
(* Properties. *)

InSeq(x, s) == \E j \in 1..Len(s) : s[j] = x

SeqToSet(s) == {s[j] : j \in 1..Len(s)}

SchemaValid == missing_columns(df) = <<>>

\* Whether some row of the dataset carries the identifier.
HasMatch(u) == \E j \in 1..Len(df.rows) : df.rows[j]["username"] = StrVal(u)

Unmatched(u) == ~HasMatch(u)

SentinelFields ==
    {"unit_sold_last_30_days", "% category", "brand", "phone", "email"}

AllSentinel(r) == \A c \in SentinelFields : r[c] = NotFound

\* The results written for a row of the dataset (not for a miss).
FoundPositions == {j \in 1..Len(results) : merged_df[j].merge = "both"}

\* C1: for a schema-valid dataset query_database returns exactly one result
\* per identifier, in the order of the identifiers, also when several rows of
\* the dataset share a username.
C1_OneResultPerIdentifier ==
    (pc = "returned" /\ SchemaValid) =>
        /\ Len(results) = Len(usernames)
        /\ \A j \in 1..Len(results) : results[j]["username"] = StrVal(usernames[j])

IsCanonicalPhone(p) ==
    /\ Len(p) = 10
    /\ \A j \in 1..Len(p) : p[j] \in Digits
    /\ p[1] = "0"

\* C2: the phone written for a matched row is a string of exactly 10 digits
\* that begins with '0', whatever the raw value; "+27-71-234-5678" gives
\* "0712345678".
C2_PhoneIsCanonical ==
    \A j \in FoundPositions :
        /\ IsCanonicalPhone(results[j]["phone"].s)
        /\ merged_df[j].cells["phone"] = StrVal(Phone27)
              => results[j]["phone"] = StrVal(Phone07)

\* C3: when the dataset lacks a required column, query_database reports the
\* missing column names and returns no result, and no join is made, whatever
\* the identifiers are.
C3_MissingColumnsShortCircuit ==
    ~(RequiredSet \subseteq df.columns) =>
        /\ pc \in {"query", "returned"}
        /\ merged_df = <<>>
        /\ pc = "returned" =>
              /\ results = <<>>
              /\ SeqToSet(st_error) = RequiredSet \ df.columns

C3_Witness ==
    /\ pc = "returned"
    /\ "brand" \notin df.columns
    /\ Len(usernames) = 2
    /\ usernames[1] = usernames[2]
    /\ st_error = <<"brand">>

RECURSIVE BlankCount(_)
BlankCount(ls) ==
    IF ls = <<>> THEN 0
    ELSE (IF \A j \in 1..Len(Head(ls)) : Head(ls)[j] \in Whitespace THEN 1 ELSE 0)
         + BlankCount(Tail(ls))

\* C4: extract_tiktok_usernames classifies each line exactly once: the valid
\* usernames, the invalid inputs and the lines that are empty after trimming
\* add up to the lines read, and at the return every line has been read.
C4_EveryLineClassifiedOnce ==
    /\ Len(valid_usernames) + Len(invalid_inputs)
         + BlankCount(SubSeq(input_list, 1, k)) = k
    /\ pc = "extracted" => k = Len(input_list)

C4_Witness ==
    /\ pc = "extracted"
    /\ Len(input_list) = 2
    /\ Len(valid_usernames) = 1
    /\ Len(invalid_inputs) = 1

\* The usernames of the results written so far.
ResultUsers == [j \in 1..Len(results) |-> results[j]["username"].s]

\* C5: an identifier with no matching username in a schema-valid dataset gets
\* the sentinel in all five fields, adds exactly 1 to the not-found counter
\* and is appended to the not-found list in input order; an identifier that
\* matches touches neither.
C5_NotFoundHandling ==
    (pc \in {"rows", "returned", "raised"} /\ SchemaValid) =>
        /\ \A j \in 1..Len(results) :
              Unmatched(ResultUsers[j]) => AllSentinel(results[j])
        /\ usernames_not_found = SelectSeq(ResultUsers, Unmatched)
        /\ not_found_count = Len(SelectSeq(ResultUsers, Unmatched))
        /\ pc = "returned" =>
              usernames_not_found = SelectSeq(usernames, Unmatched)

C5_Witness ==
    /\ pc = "returned"
    /\ SchemaValid
    /\ Len(usernames) = 2
    /\ HasMatch(usernames[1])
    /\ Unmatched(usernames[2])
    /\ not_found_count = 1
    /\ usernames_not_found = <<usernames[2]>>

\* n is the integer part of the float of h halves.
IsIntegerPart(n, h) ==
    IF h >= 0 THEN 2 * n <= h /\ h < 2 * n + 2
    ELSE 2 * n >= h /\ h > 2 * n - 2

\* C6: for a matched row unit_sold_last_30_days is an integer when the raw
\* value is present and numeric (an integer gives itself, a float its integer
\* part) and the sentinel when it is null or not numeric; nothing else
\* happens, and nothing is raised.
C6_UnitSoldOutcome ==
    /\ pc # "raised"
    /\ \A j \in FoundPositions :
          LET raw == merged_df[j].cells["unit_sold_last_30_days"]
              out == results[j]["unit_sold_last_30_days"]
          IN  /\ out = NotFound \/ out.k = "int"
              /\ raw.k = "int" => out = IntVal(raw.n)
              /\ raw.k = "float" => out.k = "int" /\ IsIntegerPart(out.n, raw.n)
              /\ raw.k \in {"nan", "str"} => out = NotFound

\* C7: the total of the summary is the number of valid identifiers looked up;
\* invalid and empty lines do not count.
C7_TotalIsValidCount ==
    total_processed # -1 => total_processed = Len(valid_usernames)

\* C8, as claimed: every line that is only the platform host, with or without
\* scheme and www., lands in invalid_inputs and never in valid_usernames.
C8_HostOnlyInvalid ==
    pc = "extracted" =>
        \A j \in 1..Len(input_list) :
            Strip(input_list[j]) \in HostOnly =>
                /\ InSeq(Strip(input_list[j]), invalid_inputs)
                /\ ~InSeq(Strip(input_list[j]), valid_usernames)

HasScheme(s) == HasPrefix(s, Http) \/ HasPrefix(s, Https)

\* C8, amended: a host-only line with a scheme (http:// or https://) lands in
\* invalid_inputs and never in valid_usernames; a host-only line without a
\* scheme (tiktok.com, www.tiktok.com) is made of allowed characters only and
\* lands in valid_usernames as a bare identifier, never in invalid_inputs.
C8_HostOnlyByScheme ==
    pc = "extracted" =>
        \A j \in 1..Len(input_list) :
            LET l == Strip(input_list[j])
            IN  l \in HostOnly =>
                    IF HasScheme(l)
                    THEN InSeq(l, invalid_inputs) /\ ~InSeq(l, valid_usernames)
                    ELSE InSeq(l, valid_usernames) /\ ~InSeq(l, invalid_inputs)

C8_Witness ==
    /\ pc = "extracted"
    /\ input_list = <<Https \o Www \o HostName, Www \o HostName>>
    /\ invalid_inputs = <<Https \o Www \o HostName>>
    /\ valid_usernames = <<Www \o HostName>>

\* C9: phone normalization is the identity on canonical values: a raw phone
\* of exactly 10 digits that begins with '0' is written unchanged.
C9_PhoneIdempotent ==
    \A j \in FoundPositions :
        LET raw == merged_df[j].cells["phone"]
        IN  (raw.k = "str" /\ IsCanonicalPhone(raw.s)) => results[j]["phone"] = raw

C9_Witness ==
    /\ pc = "returned"
    /\ FoundPositions # {}
    /\ \E j \in FoundPositions :
          /\ merged_df[j].cells["phone"] = StrVal(<<"0", "7", "0", "0", "7", "7", "0", "7", "7", "7">>)
          /\ results[j]["phone"] = merged_df[j].cells["phone"]

\* C10: on every return path of query_database, the missing-column path
\* included, not_found_count, the length of usernames_not_found and the number
\* of results that carry the sentinel agree.
C10_ReturnValuesAgree ==
    pc = "returned" =>
        /\ not_found_count = Len(usernames_not_found)
        /\ not_found_count = Cardinality({j \in 1..Len(results) : AllSentinel(results[j])})

====
